---------------------------- MODULE Spec2Model ----------------------------
(***************************************************************************)
(* Model of src/App.js: the App component's four pieces of state, the      *)
(* asynchronous handler fetchWeather (one record per invocation that got   *)
(* past its guard, with the invocation's local constants and its position  *)
(* between the four awaits), and the pure function getWeatherDetails.      *)
(*                                                                         *)
(* JavaScript runs each handler segment (from one await to the next) to    *)
(* completion, so each segment is one action.  null/undefined values are   *)
(* the empty sequence and a present value v is <<v>>.  Strings that the    *)
(* code inspects character by character (the query) are sequences of       *)
(* one-character strings.  Temperatures are in tenths of a degree.         *)
(***************************************************************************)
EXTENDS Integers, Sequences, FiniteSets

VARIABLES
    city,         \* useState('')     the query text (line 16)
    weatherData,  \* useState(null)   the result (line 17)
    loading,      \* useState(false)  (line 18)
    error,        \* useState(null)   (line 19)
    lookups,      \* the fetchWeather invocations that passed the guard of line 22
    last,         \* history: the kind of the handler segment that ran last
    code,         \* the argument of getWeatherDetails being rendered
    details       \* what getWeatherDetails returned for it

vars == <<city, weatherData, loading, error, lookups, last, code, details>>

---------------------------------------------------------------------------
(* Bounds and input sets *)

\* At most this many fetchWeather invocations get past the guard in a run.
MaxLookups == 2

\* getWeatherDetails is applied to the codes -CodeMargin .. 99 + CodeMargin.
CodeMargin == 6

Null == <<>>
Some(v) == <<v>>

\* What the user may have typed: empty, whitespace-only, padded text.
Queries == { <<>>, <<" ", "\t">>, <<" ", "a", " ">> }

\* Matches of the geocoding API (coordinates in tenths of a degree).
SaoPaulo == [latitude |-> -235, longitude |-> -466, name |-> "São Paulo",
             admin1 |-> "SP", country_code |-> "BR"]
Lisboa   == [latitude |-> 387, longitude |-> -91, name |-> "Lisboa",
             admin1 |-> "undefined", country_code |-> "PT"]

\* Decoded geocoding bodies: `results` absent, empty, one match, two matches.
GeoBodies ==
    { [hasResults |-> FALSE, results |-> <<>>],
      [hasResults |-> TRUE,  results |-> <<>>],
      [hasResults |-> TRUE,  results |-> <<SaoPaulo>>],
      [hasResults |-> TRUE,  results |-> <<Lisboa, SaoPaulo>>] }

\* Decoded forecast bodies: `current` absent (e.g. {error: true, reason}), or
\* current: {temperature_2m, weather_code}.
WxBodies ==
    { [hasCurrent |-> FALSE, temperature_2m |-> 0,   weather_code |-> 0],
      [hasCurrent |-> TRUE,  temperature_2m |-> 216, weather_code |-> 3],
      [hasCurrent |-> TRUE,  temperature_2m |-> -25, weather_code |-> 61] }

\* Messages of the errors fetch() rejects with (some carry no message).
TransportMessages == { "Network request failed", "" }

\* Message of the SyntaxError response.json() rejects with on an undecodable body.
DecodeMessage == "JSON Parse error"

\* Message of the TypeError raised by reading `.temperature_2m` of undefined.
TypeErrorMessage == "undefined is not an object"

NotFoundMessage == "Cidade não encontrada."
FallbackMessage == "Erro ao buscar dados."

---------------------------------------------------------------------------
(* Pure helpers of fetchWeather *)

IsWhiteSpace(c) == c \in { " ", "\t", "\n" }

RECURSIVE TrimStart(_)
TrimStart(s) ==
    IF s = <<>> THEN <<>>
    ELSE IF IsWhiteSpace(Head(s)) THEN TrimStart(Tail(s)) ELSE s

RECURSIVE TrimEnd(_)
TrimEnd(s) ==
    IF s = <<>> THEN <<>>
    ELSE IF IsWhiteSpace(s[Len(s)]) THEN TrimEnd(SubSeq(s, 1, Len(s) - 1)) ELSE s

\* String.prototype.trim
Trim(s) == TrimEnd(TrimStart(s))

\* encodeURIComponent on the characters of Queries: a space is escaped.
EncodeURIComponent(s) ==
    [i \in 1..Len(s) |-> IF s[i] = " " THEN "%20"
                         ELSE IF s[i] = "\t" THEN "%09"
                         ELSE IF s[i] = "\n" THEN "%0A" ELSE s[i]]

\* Variant for C5: Math.floor in place of Math.round.
MathFloor(t) == t \div 10

\* Math.round on a number given in tenths: the nearest integer, halves up.
MathRound(t) == (t + 5) \div 10

\* The URL of line 34.
GeoUrl(q) ==
    [name |-> EncodeURIComponent(q), count |-> 1, language |-> "pt", format |-> "json"]

\* The URL of line 46.
WxUrl(lat, lon) ==
    [latitude |-> lat, longitude |-> lon,
     current |-> "temperature_2m,weather_code", timezone |-> "auto"]

\* The object literal of lines 50-56.
Reading(place, wx) ==
    [city    |-> place.name,
     region  |-> place.admin1,
     country |-> place.country_code,
     temp    |-> MathRound(wx.temperature_2m),
     code    |-> wx.weather_code]

---------------------------------------------------------------------------
(* getWeatherDetails *)

Sunny     == [icon |-> "weather-sunny", label |-> "Céu Limpo", color |-> "#FDB813"]
Cloudy    == [icon |-> "weather-partly-cloudy", label |-> "Parcialmente Nublado", color |-> "#A0A0A0"]
Fog       == [icon |-> "weather-fog", label |-> "Nevoeiro", color |-> "#787878"]
Rainy     == [icon |-> "weather-rainy", label |-> "Chuva", color |-> "#4299E1"]
Snowy     == [icon |-> "weather-snowy", label |-> "Neve", color |-> "#90CDF4"]
Pouring   == [icon |-> "weather-pouring", label |-> "Pancadas de Chuva", color |-> "#2B6CB0"]
Lightning == [icon |-> "weather-lightning", label |-> "Tempestade", color |-> "#805AD5"]

\* Variant for C7: the second condition written `code >= 0 && code <= 3`.
RangeTableOverlap ==
    << [lo |-> 0,  hi |-> 0,  ret |-> Sunny],
       [lo |-> 0,  hi |-> 3,  ret |-> Cloudy],
       [lo |-> 45, hi |-> 48, ret |-> Fog],
       [lo |-> 51, hi |-> 67, ret |-> Rainy],
       [lo |-> 71, hi |-> 77, ret |-> Snowy],
       [lo |-> 80, hi |-> 82, ret |-> Pouring],
       [lo |-> 95, hi |-> 99, ret |-> Lightning] >>

\* The conditions of the seven `if`s, in source order, with what each returns.
RangeTable ==
    << [lo |-> 0,  hi |-> 0,  ret |-> Sunny],
       [lo |-> 1,  hi |-> 3,  ret |-> Cloudy],
       [lo |-> 45, hi |-> 48, ret |-> Fog],
       [lo |-> 51, hi |-> 67, ret |-> Rainy],
       [lo |-> 71, hi |-> 77, ret |-> Snowy],
       [lo |-> 80, hi |-> 82, ret |-> Pouring],
       [lo |-> 95, hi |-> 99, ret |-> Lightning] >>

\* Variant for C6: the final return gives another presentation than code 0.
DefaultCloudy == Cloudy

\* The final return of line 75.
DefaultDetails == Sunny

Matches(i, c) == RangeTable[i].lo <= c /\ c <= RangeTable[i].hi

Matching(c) == { i \in 1..Len(RangeTable) : Matches(i, c) }

RECURSIVE FirstMatch(_, _)
FirstMatch(i, c) ==
    IF i > Len(RangeTable) THEN DefaultDetails
    ELSE IF Matches(i, c) THEN RangeTable[i].ret
    ELSE FirstMatch(i + 1, c)

getWeatherDetails(c) == FirstMatch(1, c)

\* getWeatherDetails(weatherData.code) as the result card renders it.
Presentation ==
    IF weatherData = Null THEN Null
    ELSE Some(getWeatherDetails(weatherData[1].code))

---------------------------------------------------------------------------
(* The component *)

InFlightPcs == { "geoFetch", "geoJson", "wxFetch", "wxJson" }

InFlight(k) == k.pc \in InFlightPcs

Init ==
    /\ city = <<>>
    /\ weatherData = Null
    /\ loading = FALSE
    /\ error = Null
    /\ lookups = <<>>
    /\ last = "init"
    /\ code = 0
    /\ details = Null

\* onChangeText={setCity}
ChangeText(q) ==
    /\ city' = q
    /\ last' = "changeText"
    /\ UNCHANGED <<weatherData, loading, error, lookups, code, details>>

\* Variant for C3: the guard written `!city`, without trim().
IsEmptyString(q) == q = <<>>

\* The guard of line 22: `!city.trim()`.
IsBlank(q) == Trim(q) = <<>>

\* fetchWeather up to its first await: the guard, the three setters and the
\* geocoding fetch() call, whose request leaves before the handler suspends.
fetchWeather(trigger) ==
    /\ last' = trigger
    /\ IF IsBlank(city)
       THEN UNCHANGED <<city, weatherData, loading, error, lookups, code, details>>
       ELSE /\ Len(lookups) < MaxLookups
            /\ loading' = TRUE
            /\ error' = Null
            /\ weatherData' = Null
            /\ lookups' = Append(lookups,
                   [pc                |-> "geoFetch",
                    geoReqs           |-> <<GeoUrl(city)>>,
                    geoData           |-> Null,
                    wxReqs            |-> <<>>,
                    weatherDataResult |-> Null])
            /\ UNCHANGED <<city, code, details>>

\* The search button: onPress={fetchWeather} disabled={loading}.
PressSearch ==
    /\ ~loading
    /\ fetchWeather("press")

\* The keyboard's search key: onSubmitEditing={fetchWeather}.
SubmitEditing == fetchWeather("submit")

\* catch (err) { setError(err.message || '...') } finally { setLoading(false) }
Catch(l, message) ==
    /\ error' = Some(IF message = "" THEN FallbackMessage ELSE message)
    /\ loading' = FALSE
    /\ lookups' = [lookups EXCEPT ![l].pc = "failed"]
    /\ last' = "response"
    /\ UNCHANGED <<city, weatherData, code, details>>

\* Moving lookup l to the next await without touching the component's state.
Suspend(l, next) ==
    /\ lookups' = [lookups EXCEPT ![l] = next]
    /\ last' = "response"
    /\ UNCHANGED <<city, weatherData, loading, error, code, details>>

\* await fetch(geocoding) resolves with a Response: on to geoResponse.json().
GeoFetchResolved(l) ==
    /\ lookups[l].pc = "geoFetch"
    /\ Suspend(l, [lookups[l] EXCEPT !.pc = "geoJson"])

\* Variant for C1: a rejected geocoding fetch is retried instead of caught.
GeoFetchRetried(l, message) ==
    /\ lookups[l].pc = "geoFetch"
    /\ lookups' = [lookups EXCEPT ![l].geoReqs = Append(@, @[1])]
    /\ last' = "response"
    /\ UNCHANGED <<city, weatherData, loading, error, code, details>>

\* await fetch(geocoding) rejects.
GeoFetchRejected(l, message) ==
    /\ lookups[l].pc = "geoFetch"
    /\ Catch(l, message)

\* await geoResponse.json() rejects: the body is not JSON.
GeoJsonRejected(l) ==
    /\ lookups[l].pc = "geoJson"
    /\ Catch(l, DecodeMessage)

\* Has the decoded geocoding body no match?  (the condition of line 38)
NoMatch(geoData) == ~geoData.hasResults \/ Len(geoData.results) = 0

\* await geoResponse.json() resolves with `body`: the not-found throw, or the
\* destructuring of results[0] and the forecast fetch() call.
GeoJsonResolved(l, body) ==
    /\ lookups[l].pc = "geoJson"
    /\ IF NoMatch(body)
       THEN /\ error' = Some(NotFoundMessage)
            /\ loading' = FALSE
            /\ lookups' = [lookups EXCEPT ![l].pc = "failed",
                                          ![l].geoData = Some(body)]
            /\ last' = "response"
            /\ UNCHANGED <<city, weatherData, code, details>>
       ELSE Suspend(l, [lookups[l] EXCEPT
                !.pc = "wxFetch",
                !.geoData = Some(body),
                !.wxReqs = Append(@, WxUrl(body.results[1].latitude,
                                           body.results[1].longitude))])

\* await fetch(forecast) resolves with a Response: on to weatherResponse.json().
WxFetchResolved(l) ==
    /\ lookups[l].pc = "wxFetch"
    /\ Suspend(l, [lookups[l] EXCEPT !.pc = "wxJson"])

\* await fetch(forecast) rejects.
WxFetchRejected(l, message) ==
    /\ lookups[l].pc = "wxFetch"
    /\ Catch(l, message)

\* await weatherResponse.json() rejects.
WxJsonRejected(l) ==
    /\ lookups[l].pc = "wxJson"
    /\ Catch(l, DecodeMessage)

\* await weatherResponse.json() resolves with `body`: setWeatherData(...) and
\* the finally block; reading a field of an absent `current` throws instead.
WxJsonResolved(l, body) ==
    /\ lookups[l].pc = "wxJson"
    /\ IF ~body.hasCurrent
       THEN /\ error' = Some(TypeErrorMessage)
            /\ loading' = FALSE
            /\ lookups' = [lookups EXCEPT ![l].pc = "failed",
                                          ![l].weatherDataResult = Some(body)]
            /\ UNCHANGED weatherData
       ELSE /\ weatherData' = Some(Reading(lookups[l].geoData[1].results[1], body))
            /\ loading' = FALSE
            /\ lookups' = [lookups EXCEPT ![l].pc = "done",
                                          ![l].weatherDataResult = Some(body)]
            /\ UNCHANGED error
    /\ last' = "response"
    /\ UNCHANGED <<city, code, details>>

Next ==
    \/ \E q \in Queries : ChangeText(q)
    \/ PressSearch
    \/ SubmitEditing
    \/ \E l \in DOMAIN lookups : GeoFetchResolved(l)
    \/ \E l \in DOMAIN lookups, m \in TransportMessages : GeoFetchRejected(l, m)
    \/ \E l \in DOMAIN lookups : GeoJsonRejected(l)
    \/ \E l \in DOMAIN lookups, b \in GeoBodies : GeoJsonResolved(l, b)
    \/ \E l \in DOMAIN lookups : WxFetchResolved(l)
    \/ \E l \in DOMAIN lookups, m \in TransportMessages : WxFetchRejected(l, m)
    \/ \E l \in DOMAIN lookups : WxJsonRejected(l)
    \/ \E l \in DOMAIN lookups, b \in WxBodies : WxJsonResolved(l, b)

Spec == Init /\ [][Next]_vars

---------------------------------------------------------------------------
(* getWeatherDetails on its own: applied once to each code of CodeRange *)

CodeRange == (0 - CodeMargin) .. (99 + CodeMargin)

InitClassify ==
    /\ city = <<>>
    /\ weatherData = Null
    /\ loading = FALSE
    /\ error = Null
    /\ lookups = <<>>
    /\ last = "init"
    /\ code \in CodeRange
    /\ details = Null

Classify ==
    /\ details = Null
    /\ details' = Some(getWeatherDetails(code))
    /\ UNCHANGED <<city, weatherData, loading, error, lookups, last, code>>

NextClassify == Classify

SpecClassify == InitClassify /\ [][NextClassify]_vars

---------------------------------------------------------------------------
(* Claims about fetchWeather, under Spec *)

Started == DOMAIN lookups

WhitespaceOnly(q) == \A i \in 1..Len(q) : q[i] \in { " ", "\t", "\n" }

\* C1: every invocation that passed the guard has issued exactly one geocoding
\* request; it has issued at most one forecast request, and only after the
\* geocoding response was received and decoded with a match; while the
\* geocoding response is awaited no forecast request exists.
C1_OneGeocodingThenAtMostOneForecast ==
    \A l \in Started :
        /\ Len(lookups[l].geoReqs) = 1
        /\ Len(lookups[l].wxReqs) <= 1
        /\ lookups[l].pc \in { "geoFetch", "geoJson" } => lookups[l].wxReqs = <<>>
        /\ lookups[l].wxReqs # <<>> =>
              /\ lookups[l].geoData # Null
              /\ lookups[l].geoData[1].results # <<>>
        /\ lookups[l].pc = "done" => Len(lookups[l].wxReqs) = 1

\* C1 witness: one lookup ran both requests to the end and another failed at
\* the geocoding step after its single request.
C1_Witness ==
    \E l, k \in Started :
        /\ lookups[l].pc = "done" /\ Len(lookups[l].wxReqs) = 1
        /\ lookups[k].pc = "failed" /\ lookups[k].wxReqs = <<>>
        /\ Len(lookups[k].geoReqs) = 1

\* C2: when the geocoding body of a lookup has `results` absent or empty, the
\* lookup issues no forecast request and its handler leaves the not-found
\* message as the error and no result.
C2_NotFoundEndsFailedWithoutResult ==
    [][\A l \in Started :
          (/\ lookups[l].pc = "geoJson"
           /\ lookups'[l].geoData # Null
           /\ (~lookups'[l].geoData[1].hasResults
               \/ lookups'[l].geoData[1].results = <<>>))
          => /\ lookups'[l].pc = "failed"
             /\ lookups'[l].wxReqs = <<>>
             /\ error' = Some(NotFoundMessage)
             /\ weatherData' = Null]_vars

\* C3: an invocation of fetchWeather while the query is empty or
\* whitespace-only changes neither loading, error nor result and issues no
\* request.
C3_BlankQueryIsNoOp ==
    [][(last' \in { "press", "submit" } /\ WhitespaceOnly(city))
          => UNCHANGED <<loading, error, weatherData, lookups>>]_vars

\* C3 witness: fetchWeather was just invoked on a whitespace-only query while
\* a result was displayed.
C3_Witness ==
    /\ last = "submit"
    /\ city # <<>>
    /\ WhitespaceOnly(city)
    /\ weatherData # Null

\* C4: whenever a lookup fails, the state its handler leaves has an error
\* message and no result.
C4_FailureLeavesErrorAndNoResult ==
    [][\A l \in Started :
          (lookups[l].pc # "failed" /\ lookups'[l].pc = "failed")
          => (error' # Null /\ weatherData' = Null)]_vars

\* C5: a displayed result comes from one lookup that completed: its city,
\* region and country are those of the first match of that lookup's geocoding
\* body, its temperature is an integer nearest to the temperature of that
\* lookup's forecast body and its code is that body's weather code.
C5_ResultFromOneCompleteLookup ==
    weatherData # Null =>
        \E l \in Started :
            /\ lookups[l].pc = "done"
            /\ lookups[l].geoData # Null
            /\ lookups[l].geoData[1].hasResults
            /\ lookups[l].geoData[1].results # <<>>
            /\ lookups[l].weatherDataResult # Null
            /\ lookups[l].weatherDataResult[1].hasCurrent
            /\ LET place == lookups[l].geoData[1].results[1]
                   wx    == lookups[l].weatherDataResult[1]
                   r     == weatherData[1]
               IN  /\ r.city = place.name
                   /\ r.region = place.admin1
                   /\ r.country = place.country_code
                   /\ r.code = wx.weather_code
                   /\ 10 * r.temp - 5 <= wx.temperature_2m
                   /\ wx.temperature_2m <= 10 * r.temp + 5

\* C5 witness: a result is displayed while a second lookup, which has only
\* its geocoding half, is still in flight.
C5_Witness ==
    /\ weatherData # Null
    /\ weatherData[1].temp = 22
    /\ \E k \in Started : lookups[k].pc = "wxFetch"

\* C8: at most one fetchWeather invocation is in flight.
C8_AtMostOneInFlight ==
    Cardinality({ l \in Started : InFlight(lookups[l]) }) <= 1

\* C9 (its final state): a lookup that ends leaves loading false and exactly
\* one of result and error set.
C9_EndsWithExactlyOneOfResultAndError ==
    [][\A l \in Started :
          (InFlight(lookups[l]) /\ ~InFlight(lookups'[l]))
          => /\ loading' = FALSE
             /\ (weatherData' = Null) # (error' = Null)]_vars

\* C10: loading is true exactly when some lookup is in flight.
C10_LoadingIffInFlight ==
    loading <=> \E l \in Started : InFlight(lookups[l])

---------------------------------------------------------------------------
(* Claims about getWeatherDetails, under SpecClassify *)

\* The ranges the claims list: 0, 1-3, 45-48, 51-67, 71-77, 80-82, 95-99.
InListedRange(c) ==
    \/ c = 0
    \/ c \in 1..3
    \/ c \in 45..48
    \/ c \in 51..67
    \/ c \in 71..77
    \/ c \in 80..82
    \/ c \in 95..99

Presentations == { Sunny, Cloudy, Fog, Rainy, Snowy, Pouring, Lightning }

\* C6: getWeatherDetails returns a defined {icon, label, color} for every
\* code, and for a code in none of the listed ranges it returns what it
\* returns for code 0.
C6_TotalWithClearSkyDefault ==
    details # Null =>
        /\ details[1] \in Presentations
        /\ ~InListedRange(code) => details[1] = getWeatherDetails(0)

\* C6 witness: the function was applied to a negative code, to a code above
\* 99 or to an unlisted code in between.
C6_Witness ==
    /\ details # Null
    /\ code \in { -5, 100, 50 }

RECURSIVE LastMatch(_, _)
LastMatch(i, c) ==
    IF i < 1 THEN DefaultDetails
    ELSE IF Matches(i, c) THEN RangeTable[i].ret
    ELSE LastMatch(i - 1, c)

\* C7: for a code in 0..99 at most one condition of the range table holds
\* (the final return applies when none does), so testing the conditions in
\* the opposite order returns the same presentation.
C7_RangesDoNotOverlap ==
    (details # Null /\ code \in 0..99) =>
        /\ Cardinality(Matching(code)) <= 1
        /\ details[1] = LastMatch(Len(RangeTable), code)

\* C7 witness: the function was applied to a code at the border of two
\* adjacent ranges.
C7_Witness ==
    /\ details # Null
    /\ code \in { 0, 1 }

===========================================================================
